---- MODULE Spec2Model ----
(***************************************************************************)
(* State-machine model of backend/app.py of SignSpeak: the start-up load   *)
(* of the Keras classifiers, the /api/interpret-sign handler (base64       *)
(* decoding, per-model preprocessing and inference, arbitration by maximum *)
(* confidence, threshold) and the /api/text-to-speech handler with its     *)
(* temporary file.                                                         *)
(*                                                                         *)
(* Strings are sequences of one-character strings.  Probabilities are      *)
(* integers counting tenths (6 stands for 0.6).                            *)
(***************************************************************************)
EXTENDS Integers, Sequences, FiniteSets, TLC

\* ------------------------------------------------------------------------
\* Bounds of the model
\* ------------------------------------------------------------------------

\* Image contents are the prefixes of SampleImage of length 0..MaxContentLen.
MaxContentLen == 3

\* Arbitrary payload strings over JunkAlphabet have length 0..MaxJunkLen.
MaxJunkLen == 3

\* A classifier's output vector is at most ExtraWidth wider than its alphabet.
ExtraWidth == 1

\* Number of concurrent text-to-speech requests.
NumTTS == 2

\* ------------------------------------------------------------------------
\* Module-level configuration (app.py lines 33-63)
\* ------------------------------------------------------------------------

\* The keys of MODEL_PATHS in insertion order (dict iteration order).
MODEL_PATHS == <<"digit", "asl", "isl">>

\* 0.6, in tenths.
KERAS_CONFIDENCE_THRESHOLD == 6

DIGIT_LABELS == <<"0", "1", "2", "3", "4", "5", "6", "7", "8", "9">>

ASL_LABELS == <<"A", "B", "C", "D", "E", "F", "G", "H", "I", "K", "L", "M",
                "N", "O", "P", "Q", "R", "S", "T", "U", "V", "W", "X", "Y">>

ISL_LABELS == <<"A", "B", "C", "D", "E", "F", "G", "H", "I", "J", "K", "L", "M",
                "N", "O", "P", "Q", "R", "S", "T", "U", "V", "W", "X", "Y", "Z">>

\* LABEL_MAPS.get(model_type, [])
LABEL_MAPS(model_type) ==
    CASE model_type = "digit" -> DIGIT_LABELS
      [] model_type = "asl"   -> ASL_LABELS
      [] model_type = "isl"   -> ISL_LABELS
      [] OTHER                -> << >>

\* Python's None.
None == [none |-> TRUE]

\* ------------------------------------------------------------------------
\* Strings and base64
\* ------------------------------------------------------------------------

\* The base64 alphabet, value v at position v + 1.
B64Chars ==
    <<"A", "B", "C", "D", "E", "F", "G", "H", "I", "J", "K", "L", "M",
      "N", "O", "P", "Q", "R", "S", "T", "U", "V", "W", "X", "Y", "Z",
      "a", "b", "c", "d", "e", "f", "g", "h", "i", "j", "k", "l", "m",
      "n", "o", "p", "q", "r", "s", "t", "u", "v", "w", "x", "y", "z",
      "0", "1", "2", "3", "4", "5", "6", "7", "8", "9", "+", "/">>

B64Alphabet == {B64Chars[i] : i \in 1..64}

B64Value(ch) == (CHOOSE i \in 1..64 : B64Chars[i] = ch) - 1

\* A character outside ASCII (one code point, written by its name).
NonAsciiChar == "U+00E9"

IsAscii(s) == \A i \in 1..Len(s) : s[i] # NonAsciiChar

\* base64.b64encode(bytes): three bytes to four characters, "=" padded.
RECURSIVE b64encode(_)
b64encode(bytes) ==
    IF Len(bytes) = 0 THEN << >>
    ELSE IF Len(bytes) = 1 THEN
        <<B64Chars[(bytes[1] \div 4) + 1],
          B64Chars[((bytes[1] % 4) * 16) + 1], "=", "=">>
    ELSE IF Len(bytes) = 2 THEN
        <<B64Chars[(bytes[1] \div 4) + 1],
          B64Chars[((bytes[1] % 4) * 16 + bytes[2] \div 16) + 1],
          B64Chars[((bytes[2] % 16) * 4) + 1], "=">>
    ELSE
        <<B64Chars[(bytes[1] \div 4) + 1],
          B64Chars[((bytes[1] % 4) * 16 + bytes[2] \div 16) + 1],
          B64Chars[((bytes[2] % 16) * 4 + bytes[3] \div 64) + 1],
          B64Chars[(bytes[3] % 64) + 1]>>
        \o b64encode(SubSeq(bytes, 4, Len(bytes)))

NoError == "no error"

\* binascii.a2b_base64 in its default (non-strict) mode, as b64decode calls
\* it: characters outside the alphabet are discarded, a complete pad
\* sequence ends the parse, leftover data characters are an error.
RECURSIVE a2b_base64(_, _, _, _, _, _)
a2b_base64(s, i, quad_pos, leftchar, pads, out) ==
    IF i > Len(s) THEN
        IF quad_pos # 0 THEN [error |-> "binascii.Error", bytes |-> << >>]
        ELSE [error |-> NoError, bytes |-> out]
    ELSE IF s[i] = "=" THEN
        IF quad_pos >= 2 /\ quad_pos + pads + 1 >= 4
        THEN [error |-> NoError, bytes |-> out]
        ELSE a2b_base64(s, i + 1, quad_pos, leftchar,
                        IF quad_pos >= 2 THEN pads + 1 ELSE pads, out)
    ELSE IF s[i] \notin B64Alphabet THEN
        a2b_base64(s, i + 1, quad_pos, leftchar, pads, out)
    ELSE
        LET v == B64Value(s[i]) IN
        CASE quad_pos = 0 -> a2b_base64(s, i + 1, 1, v, 0, out)
          [] quad_pos = 1 ->
                a2b_base64(s, i + 1, 2, v % 16, 0,
                           Append(out, (leftchar * 4 + v \div 16) % 256))
          [] quad_pos = 2 ->
                a2b_base64(s, i + 1, 3, v % 4, 0,
                           Append(out, (leftchar * 16 + v \div 4) % 256))
          [] quad_pos = 3 ->
                a2b_base64(s, i + 1, 0, 0, 0,
                           Append(out, (leftchar * 64 + v) % 256))

\* base64.b64decode(s) of a str: the str is first encoded as ASCII
\* (ValueError when it cannot be), then handed to a2b_base64.
b64decode(s) ==
    IF ~IsAscii(s) THEN [error |-> "ValueError", bytes |-> << >>]
    ELSE a2b_base64(s, 1, 0, 0, 0, << >>)

\* s.find(sub, from): the least index >= from where sub occurs in s, else 0.
Find(s, sub, from) ==
    LET hits == {i \in from..(Len(s) - Len(sub) + 1) :
                    SubSeq(s, i, i + Len(sub) - 1) = sub}
    IN IF hits = {} THEN 0 ELSE CHOOSE i \in hits : \A j \in hits : i <= j

\* The separator 'base64,'.
Base64Marker == <<"b", "a", "s", "e", "6", "4", ",">>

\* 'base64,' in image_data
HasMarker(s) == Find(s, Base64Marker, 1) # 0

\* image_data.split('base64,')[1]: the text between the first occurrence of
\* the separator and the next one (or the end).
SplitSecond(s) ==
    LET i    == Find(s, Base64Marker, 1)
        rest == SubSeq(s, i + Len(Base64Marker), Len(s))
        j    == Find(rest, Base64Marker, 1)
    IN IF j = 0 THEN rest ELSE SubSeq(rest, 1, j - 1)

\* Faulty variant: keeps the text before the separator.
StripPrefix_first(image_data) ==
    IF HasMarker(image_data)
    THEN SubSeq(image_data, 1, Find(image_data, Base64Marker, 1) - 1)
    ELSE image_data

\* Lines 93-94: drop an optional data-URL prefix.
StripPrefix(image_data) ==
    IF HasMarker(image_data) THEN SplitSecond(image_data) ELSE image_data

\* ------------------------------------------------------------------------
\* Collaborators: image codec, classifiers
\* ------------------------------------------------------------------------

\* The first bytes of a PNG file; image contents are its prefixes.
SampleImage == <<137, 80, 78, 71, 13, 10>>

Contents == {SubSeq(SampleImage, 1, n) : n \in 0..MaxContentLen}

\* Image.open(io.BytesIO(image_bytes)) identifies the bytes as an image.
IsImage(image_bytes) == image_bytes \in Contents /\ Len(image_bytes) > 0

\* Lines 65-82.  decodes: whether PIL opens, resizes and converts the image
\* without raising.  The result is the shape of img_batch, or None.
preprocess_image_for_keras(image_bytes, model_type, decodes) ==
    IF ~IsImage(image_bytes) \/ ~decodes THEN None
    ELSE IF model_type = "asl" THEN [shape |-> <<1, 28, 28, 1>>]
    ELSE IF model_type \in {"digit", "isl"} THEN [shape |-> <<1, 32, 32, 3>>]
    ELSE None

OneHot(w, a, p) == [i \in 1..w |-> IF i = a THEN p ELSE 0]

TwoHot(w, a, b, p) == [i \in 1..w |-> IF i \in {a, b} THEN p ELSE 0]

\* Output probabilities (tenths) below, at and above the threshold.
ConfLevels == {5, 6, 7}

\* The probability vectors predictions[0] a classifier may return: as wide
\* as the alphabet or wider, with the maximum at the last index of the
\* alphabet, tied between the first and the last, or out of the alphabet.
PredictionSamples(model_type) ==
    LET n == Len(LABEL_MAPS(model_type)) IN
      {OneHot(n, n, p) : p \in ConfLevels}
      \cup {TwoHot(n, 1, n, p) : p \in ConfLevels}
      \cup {OneHot(n + e, n + e, p) : e \in 1..ExtraWidth, p \in ConfLevels}

\* What model.predict does with a tensor: raise, or return a vector.
PredictOutcomes(model_type) ==
    {[raises |-> TRUE]}
    \cup {[raises |-> FALSE, predictions |-> v] : v \in PredictionSamples(model_type)}

\* np.max(predictions[0])
np_max(v) == CHOOSE x \in {v[i] : i \in 1..Len(v)} : \A i \in 1..Len(v) : x >= v[i]

\* Faulty variant: the last index of the maximum.
np_argmax_last(v) ==
    (CHOOSE i \in 1..Len(v) :
        /\ v[i] = np_max(v)
        /\ \A j \in (i + 1)..Len(v) : v[j] # np_max(v)) - 1

\* np.argmax(predictions[0]): the first index of the maximum, from 0.
np_argmax(v) ==
    (CHOOSE i \in 1..Len(v) :
        /\ v[i] = np_max(v)
        /\ \A j \in 1..(i - 1) : v[j] # np_max(v)) - 1

\* ------------------------------------------------------------------------
\* Requests
\* ------------------------------------------------------------------------

DataUrlPrefix ==
    <<"d", "a", "t", "a", ":", "i", "m", "a", "g", "e", "/", "p", "n", "g", ";">>
    \o Base64Marker

JunkAlphabet == {"i", "Q", "=", "!"}

RECURSIVE SeqsUpTo(_, _)
SeqsUpTo(A, n) ==
    IF n = 0 THEN {<< >>}
    ELSE LET S == SeqsUpTo(A, n - 1) IN S \cup {Append(s, a) : s \in S, a \in A}

\* The image strings a client may send.
Payloads ==
    {b64encode(c) : c \in Contents}
    \cup {DataUrlPrefix \o b64encode(c) : c \in Contents}
    \cup {b64encode(c) \o <<"!">> : c \in {<<137>>}}
    \cup {b64encode(c) \o <<NonAsciiChar>> : c \in Contents}
    \cup SeqsUpTo(JunkAlphabet, MaxJunkLen)

\* request.json: a body with an image, or a body without one.
Bodies == {[image |-> p] : p \in Payloads} \cup {[text |-> <<"h", "i">>]}

NoResultBody ==
    [text |-> "Unable to interpret sign (Prediction failed for all models)",
     confidence |-> 0, model |-> "none"]

LowConfidenceText(label) ==
    "Unable to interpret sign (Low Confidence: " \o label \o "?)"

\* ------------------------------------------------------------------------
\* State
\* ------------------------------------------------------------------------

VARIABLES
    artifact,      \* models/ directory at start-up: name -> ok | missing | corrupt
    main_pc,       \* "loading" (module import) or "serving"
    load_i,        \* position of the start-up loop in MODEL_PATHS
    models,        \* the models dict, as a sequence in insertion order
    startup_log,   \* log records written by the start-up loop
    pc,            \* interpret_sign: "idle", "loop", "arbitrate", "done"
    data,          \* request.json of the request in progress
    image_bytes,   \* the decoded image
    it,            \* position of the handler's loop in models.items(), 0 before it
    results,       \* the candidate list
    predicted,     \* what each classifier returned in this request
    log,           \* log records written by the request in progress
    response,      \* [status, body] once the handler has returned
    fs,            \* the directory entry temp_audio.mp3: None, or [inode, content]
    next_inode,    \* next inode number the file system hands out
    tts            \* per text-to-speech request: its position and locals

interp_vars == <<pc, data, image_bytes, it, results, predicted, log, response>>
startup_vars == <<artifact, main_pc, load_i, models, startup_log>>
tts_vars == <<fs, next_inode, tts>>
vars == <<artifact, main_pc, load_i, models, startup_log, pc, data, image_bytes,
          it, results, predicted, log, response, fs, next_inode, tts>>

\* ------------------------------------------------------------------------
\* Start-up: lines 41-52
\* ------------------------------------------------------------------------

\* tf.keras.models.load_model(path): the loaded classifier.
load_model(name) == [keras |-> name]

LogRec(level, event, model_type) ==
    [level |-> level, event |-> event, model |-> model_type]

\* models.get(name) for the sequence form of the dict.
ModelNames == {MODEL_PATHS[i] : i \in 1..Len(MODEL_PATHS)}

Init ==
    /\ artifact \in [ModelNames -> {"ok", "missing", "corrupt"}]
    /\ main_pc = "loading"
    /\ load_i = 1
    /\ models = << >>
    /\ startup_log = << >>
    /\ pc = "idle"
    /\ data = None
    /\ image_bytes = << >>
    /\ it = 0
    /\ results = << >>
    /\ predicted = << >>
    /\ log = << >>
    /\ response = None
    /\ fs = None
    /\ next_inode = 1
    /\ tts = [r \in 1..NumTTS |-> [pc |-> "idle"]]

\* Faulty variant: a load failure leaves the name without a slot.
LoadModel_noslot ==
    /\ main_pc = "loading"
    /\ load_i <= Len(MODEL_PATHS)
    /\ LET name == MODEL_PATHS[load_i] IN
         IF artifact[name] = "ok"
         THEN /\ models' = Append(models, [name |-> name, model |-> load_model(name)])
              /\ startup_log' = Append(startup_log, LogRec("info", "loaded", name))
         ELSE /\ models' = models
              /\ startup_log' = Append(startup_log, LogRec("error", "failed", name))
    /\ load_i' = load_i + 1
    /\ UNCHANGED <<artifact, main_pc, interp_vars, tts_vars>>

\* One iteration of the loop of lines 42-52.
LoadModel ==
    /\ main_pc = "loading"
    /\ load_i <= Len(MODEL_PATHS)
    /\ LET name == MODEL_PATHS[load_i] IN
         IF artifact[name] = "ok"
         THEN \* os.path.exists(path) and load_model returns
              /\ models' = Append(models, [name |-> name, model |-> load_model(name)])
              /\ startup_log' = Append(startup_log, LogRec("info", "loaded", name))
         ELSE IF artifact[name] = "missing"
         THEN \* the else branch of line 47
              /\ models' = Append(models, [name |-> name, model |-> None])
              /\ startup_log' = Append(startup_log, LogRec("error", "not found", name))
         ELSE \* load_model raises, line 50
              /\ models' = Append(models, [name |-> name, model |-> None])
              /\ startup_log' = Append(startup_log, LogRec("error", "failed", name))
    /\ load_i' = load_i + 1
    /\ UNCHANGED <<artifact, main_pc, interp_vars, tts_vars>>

\* The loop is over: the module is imported and app.run serves requests.
StartServing ==
    /\ main_pc = "loading"
    /\ load_i > Len(MODEL_PATHS)
    /\ main_pc' = "serving"
    /\ UNCHANGED <<artifact, load_i, models, startup_log, interp_vars, tts_vars>>

\* ------------------------------------------------------------------------
\* /api/interpret-sign: lines 84-163
\* ------------------------------------------------------------------------

Respond(status, body) == [status |-> status, body |-> body]

\* Lines 86-97 with the handlers of lines 156-163: read the body, strip the
\* prefix, decode.
Receive ==
    /\ main_pc = "serving"
    /\ pc = "idle"
    /\ \E body \in Bodies :
         /\ data' = body
         /\ IF "image" \notin DOMAIN body
            THEN /\ response' = Respond(400, [error |-> "Image data is required"])
                 /\ pc' = "done"
                 /\ UNCHANGED <<image_bytes, it, results, log>>
            ELSE LET image_data == StripPrefix(body.image)
                     decoded    == b64decode(image_data)
                 IN IF decoded.error = "binascii.Error"
                    THEN /\ response' = Respond(400, [error |-> "Invalid base64 data"])
                         /\ log' = Append(log, LogRec("error", "invalid base64", "none"))
                         /\ pc' = "done"
                         /\ UNCHANGED <<image_bytes, it, results>>
                    ELSE IF decoded.error = "ValueError"
                    THEN /\ response' = Respond(500,
                            [error |-> "Internal server error processing sign interpretation"])
                         /\ log' = Append(log, LogRec("error", "endpoint error", "none"))
                         /\ pc' = "done"
                         /\ UNCHANGED <<image_bytes, it, results>>
                    ELSE /\ image_bytes' = decoded.bytes
                         /\ results' = << >>
                         /\ it' = 1
                         /\ pc' = "loop"
                         /\ UNCHANGED <<response, log>>
    /\ UNCHANGED <<predicted, startup_vars, tts_vars>>

\* Faulty variant: no try/except around predict, an inference error ends
\* the request with the handler's 500.
EvalModel_abort ==
    /\ pc = "loop"
    /\ it <= Len(models)
    /\ LET model_type == models[it].name
           model      == models[it].model
       IN IF model = None
          THEN \* lines 101-103
               /\ log' = Append(log, LogRec("warning", "skipping unloaded", model_type))
               /\ UNCHANGED <<results, predicted>>
          ELSE \E decodes \in BOOLEAN, out \in PredictOutcomes(model_type) :
               LET processed_image ==
                       preprocess_image_for_keras(image_bytes, model_type, decodes)
               IN IF processed_image = None
                  THEN \* lines 106-108
                       /\ log' = Append(log,
                                    LogRec("error", "preprocessing failed", model_type))
                       /\ UNCHANGED <<results, predicted>>
                  ELSE IF out.raises
                  THEN /\ log' = Append(log, LogRec("error", "endpoint error", "none"))
                       /\ predicted' = Append(predicted,
                            [model |-> model_type, raises |-> TRUE])
                       /\ UNCHANGED results
                  ELSE LET confidence      == np_max(out.predictions)
                           predicted_index == np_argmax(out.predictions)
                           label_map       == LABEL_MAPS(model_type)
                       IN /\ predicted' = Append(predicted,
                                [model |-> model_type, raises |-> FALSE,
                                 predictions |-> out.predictions])
                          /\ IF predicted_index < Len(label_map)
                             THEN \* lines 117-123
                                  /\ results' = Append(results,
                                        [model |-> model_type,
                                         label |-> label_map[predicted_index + 1],
                                         confidence |-> confidence])
                                  /\ log' = Append(log,
                                        LogRec("info", "prediction", model_type))
                             ELSE \* line 125
                                  /\ log' = Append(log,
                                        LogRec("error", "index out of bounds", model_type))
                                  /\ UNCHANGED results
    /\ it' = it + 1
    /\ IF \E i \in 1..Len(log') : log'[i].event = "endpoint error"
       THEN /\ pc' = "done"
            /\ response' = Respond(500,
                    [error |-> "Internal server error processing sign interpretation"])
       ELSE UNCHANGED <<pc, response>>
    /\ UNCHANGED <<data, image_bytes, startup_vars, tts_vars>>

\* One iteration of the loop of lines 100-130.
EvalModel ==
    /\ pc = "loop"
    /\ it <= Len(models)
    /\ LET model_type == models[it].name
           model      == models[it].model
       IN IF model = None
          THEN \* lines 101-103
               /\ log' = Append(log, LogRec("warning", "skipping unloaded", model_type))
               /\ UNCHANGED <<results, predicted>>
          ELSE \E decodes \in BOOLEAN, out \in PredictOutcomes(model_type) :
               LET processed_image ==
                       preprocess_image_for_keras(image_bytes, model_type, decodes)
               IN IF processed_image = None
                  THEN \* lines 106-108
                       /\ log' = Append(log,
                                    LogRec("error", "preprocessing failed", model_type))
                       /\ UNCHANGED <<results, predicted>>
                  ELSE IF out.raises
                  THEN \* lines 127-130
                       /\ log' = Append(log,
                                    LogRec("error", "prediction error", model_type))
                       /\ predicted' = Append(predicted,
                            [model |-> model_type, raises |-> TRUE])
                       /\ UNCHANGED results
                  ELSE LET confidence      == np_max(out.predictions)
                           predicted_index == np_argmax(out.predictions)
                           label_map       == LABEL_MAPS(model_type)
                       IN /\ predicted' = Append(predicted,
                                [model |-> model_type, raises |-> FALSE,
                                 predictions |-> out.predictions])
                          /\ IF predicted_index < Len(label_map)
                             THEN \* lines 117-123
                                  /\ results' = Append(results,
                                        [model |-> model_type,
                                         label |-> label_map[predicted_index + 1],
                                         confidence |-> confidence])
                                  /\ log' = Append(log,
                                        LogRec("info", "prediction", model_type))
                             ELSE \* line 125
                                  /\ log' = Append(log,
                                        LogRec("error", "index out of bounds", model_type))
                                  /\ UNCHANGED results
    /\ it' = it + 1
    /\ UNCHANGED <<pc, response, data, image_bytes, startup_vars, tts_vars>>

\* Faulty variant of max: a later candidate replaces an equal earlier one.
RECURSIVE max_last(_, _, _)
max_last(rs, i, best) ==
    IF i > Len(rs) THEN best
    ELSE max_last(rs, i + 1, IF rs[i].confidence >= best.confidence THEN rs[i] ELSE best)

\* max(results, key=lambda x: x['confidence']) from item i on, best so far
\* given: an item replaces the best only when its key is greater.
RECURSIVE max_from(_, _, _)
max_from(rs, i, best) ==
    IF i > Len(rs) THEN best
    ELSE max_from(rs, i + 1, IF rs[i].confidence > best.confidence THEN rs[i] ELSE best)

best_of_last(rs) == max_last(rs, 2, rs[1])

\* Line 137.
best_of(rs) == max_from(rs, 2, rs[1])

\* Faulty variant: the threshold itself is rejected.
Accepted_strict(confidence) == confidence > KERAS_CONFIDENCE_THRESHOLD

\* Line 141.
Accepted(confidence) == confidence >= KERAS_CONFIDENCE_THRESHOLD

\* Faulty variant: a lone candidate is treated as no result.
NoCandidates_lone(rs) == Len(rs) < 2

\* Line 132: not results.
NoCandidates(rs) == Len(rs) = 0

\* Lines 132-154, after the loop.
Arbitrate ==
    /\ pc = "loop"
    /\ it > Len(models)
    /\ IF NoCandidates(results)
       THEN /\ log' = Append(log, LogRec("error", "no valid prediction", "none"))
            /\ response' = Respond(500, NoResultBody)
       ELSE LET best_result == best_of(results) IN
            /\ log' = Append(log, LogRec("info", "best result", best_result.model))
            /\ IF Accepted(best_result.confidence)
               THEN response' = Respond(200,
                        [text |-> best_result.label,
                         confidence |-> best_result.confidence,
                         model |-> best_result.model])
               ELSE response' = Respond(200,
                        [text |-> LowConfidenceText(best_result.label),
                         confidence |-> best_result.confidence,
                         model |-> best_result.model])
    /\ pc' = "done"
    /\ UNCHANGED <<data, image_bytes, it, results, predicted, startup_vars, tts_vars>>

\* The response is sent; the request's locals are gone.
Finish ==
    /\ pc = "done"
    /\ pc' = "idle"
    /\ data' = None
    /\ image_bytes' = << >>
    /\ it' = 0
    /\ results' = << >>
    /\ predicted' = << >>
    /\ log' = << >>
    /\ response' = None
    /\ UNCHANGED <<startup_vars, tts_vars>>

Next ==
    \/ LoadModel
    \/ StartServing
    \/ Receive
    \/ EvalModel
    \/ Arbitrate
    \/ Finish

Spec == Init /\ [][Next]_vars

\* ------------------------------------------------------------------------
\* Properties of start-up and /api/interpret-sign
\* ------------------------------------------------------------------------

\* The handler has returned after reaching the loop over the classifiers.
Classified == pc = "done" /\ it > 0

\* The per-model log events of one request.
ModelEvents ==
    {"skipping unloaded", "preprocessing failed", "prediction error",
     "index out of bounds", "prediction"}

EventsOf(model_type) ==
    {i \in 1..Len(log) : log[i].model = model_type /\ log[i].event \in ModelEvents}

IsMaxOf(x, v) ==
    /\ \E i \in 1..Len(v) : v[i] = x
    /\ \A i \in 1..Len(v) : v[i] <= x

\* i (from 0) is the first position of the maximum of v.
IsArgmaxOf(i, v) ==
    /\ i + 1 \in 1..Len(v)
    /\ \A j \in 1..Len(v) : v[j] <= v[i + 1]
    /\ \A j \in 1..i : v[j] < v[i + 1]

FirstMaxIndex(v) ==
    LET m == CHOOSE x \in 0..10 : IsMaxOf(x, v)
    IN CHOOSE i \in 0..(Len(v) - 1) : v[i + 1] = m /\ IsArgmaxOf(i, v)

\* The classifier outputs of this request whose argmax lies in the alphabet.
Survivors ==
    {k \in 1..Len(predicted) :
        /\ ~predicted[k].raises
        /\ FirstMaxIndex(predicted[k].predictions) < Len(LABEL_MAPS(predicted[k].model))}

SurvivorConfidence(k) ==
    CHOOSE x \in 0..10 : IsMaxOf(x, predicted[k].predictions)

SurvivorLabel(k) ==
    LABEL_MAPS(predicted[k].model)[FirstMaxIndex(predicted[k].predictions) + 1]

\* The response is a decision taken from classifier output k, one of S.
IsDecisionOf(k, S) ==
    LET label == SurvivorLabel(k)
        conf  == SurvivorConfidence(k)
    IN /\ response.status = 200
       /\ DOMAIN response.body = {"text", "confidence", "model"}
       /\ response.body.model = predicted[k].model
       /\ response.body.confidence = conf
       /\ response.body.text \in {label, LowConfidenceText(label)}
       /\ \A j \in S : SurvivorConfidence(j) <= conf

\* Every loaded classifier got a tensor and returned a vector.
AllDecodedAndReturned ==
    /\ \A i \in 1..Len(log) : log[i].event \notin {"preprocessing failed", "prediction error"}

\* C1 as stated: whenever every preprocessor decodes the image, for every
\* combination of loaded classifiers and returned probability vectors, the
\* request returns exactly one decision, the surviving candidate of maximum
\* confidence, labelled by its alphabet at its argmax, with its maximum
\* probability as confidence.
C1_AlwaysOneDecision ==
    (Classified /\ AllDecodedAndReturned) =>
        LET S == Survivors IN \E k \in S : IsDecisionOf(k, S)

\* C1 amended: the same, provided at least one candidate survives (a
\* classifier is loaded and its argmax lies inside its alphabet).
C1_DecisionWhenCandidate ==
    (Classified /\ AllDecodedAndReturned) =>
        LET S == Survivors IN S # {} => \E k \in S : IsDecisionOf(k, S)

\* C1 witness: three classifiers returned vectors and the last one wins.
C1_Witness ==
    /\ Classified /\ AllDecodedAndReturned
    /\ Cardinality(Survivors) = 3
    /\ response.status = 200
    /\ response.body.model = "isl"
    /\ response.body.text = "A"

\* C2: a failure scoped to one SymbolSet only excludes that SymbolSet: every
\* configured SymbolSet is evaluated exactly once in the request, the valid
\* candidates are all kept, and the request returns a decision whenever a
\* candidate exists.
C2_FailureIsolated ==
    Classified =>
        LET S == Survivors IN
        /\ \A i \in 1..Len(models) : Cardinality(EventsOf(models[i].name)) = 1
        /\ Len(results) = Cardinality(S)
        /\ \A k \in S : \E j \in 1..Len(results) :
              results[j].model = predicted[k].model
        /\ results # << >> =>
              /\ response.status = 200
              /\ "error" \notin DOMAIN response.body
              /\ response.body.model \in ModelNames

\* C2 witness: the first classifier raised, the second returned an index out
\* of its alphabet, the third is the decision.
C2_Witness ==
    /\ Classified
    /\ \E i \in 1..Len(log) : log[i] = LogRec("error", "prediction error", "digit")
    /\ \E i \in 1..Len(log) : log[i] = LogRec("error", "index out of bounds", "asl")
    /\ response.status = 200
    /\ response.body.model = "isl"

IsNoResult ==
    /\ response.status = 500
    /\ DOMAIN response.body = {"text", "confidence", "model"}
    /\ response.body.confidence = 0
    /\ response.body.model = "none"
    /\ response.body.text = "Unable to interpret sign (Prediction failed for all models)"

\* C3: the no-result response (confidence 0, model "none") is returned if
\* and only if the candidate list is empty, which is the case when no
\* classifier is loaded or every loaded one fails.
C3_NoResultIffEmpty ==
    pc = "done" =>
        /\ IsNoResult <=> (it > 0 /\ results = << >>)
        /\ ("model" \in DOMAIN response.body /\ response.body.model = "none")
              <=> (it > 0 /\ results = << >>)
        /\ (it > 0 /\ \A i \in 1..Len(log) : log[i].event # "prediction")
              => IsNoResult

\* C3 witness: all three classifiers are loaded, each fails, no result.
C3_Witness ==
    /\ Classified
    /\ \A i \in 1..Len(models) : models[i].model # None
    /\ \E i \in 1..Len(log) : log[i].event = "prediction error"
    /\ \E i \in 1..Len(log) : log[i].event = "index out of bounds"
    /\ \E i \in 1..Len(log) : log[i].event = "preprocessing failed"
    /\ IsNoResult

MaxConfidence ==
    CHOOSE x \in 0..10 :
        /\ \E j \in 1..Len(results) : results[j].confidence = x
        /\ \A j \in 1..Len(results) : results[j].confidence <= x

\* C4: with a non-empty candidate list, a winning confidence >= 0.6 is
\* answered with the bare label, one below 0.6 with the low-confidence text
\* carrying the label, both with the confidence and the model; never the
\* no-result response.
C4_Threshold ==
    (Classified /\ results # << >>) =>
        /\ response.status = 200
        /\ ~IsNoResult
        /\ response.body.confidence = MaxConfidence
        /\ \E j \in 1..Len(results) :
              /\ results[j].confidence = MaxConfidence
              /\ response.body.model = results[j].model
              /\ MaxConfidence >= KERAS_CONFIDENCE_THRESHOLD
                    => response.body.text = results[j].label
              /\ MaxConfidence < KERAS_CONFIDENCE_THRESHOLD
                    => response.body.text = LowConfidenceText(results[j].label)

\* C4 witness: a winning confidence of exactly 0.6 answered with the label.
C4_Witness ==
    /\ Classified
    /\ results # << >>
    /\ response.body.confidence = KERAS_CONFIDENCE_THRESHOLD
    /\ response.body.text = "9"

\* Position of a SymbolSet in the configured order.
Rank(model_type) == CHOOSE i \in 1..Len(MODEL_PATHS) : MODEL_PATHS[i] = model_type

\* C5: among the candidates of maximum confidence the one earliest in the
\* configured order digit, asl, isl wins; the decision is a function of the
\* registry and the classifier outputs.
C5_TieBreak ==
    Classified =>
        LET S == Survivors IN
        S # {} => \E k \in S :
            /\ IsDecisionOf(k, S)
            /\ \A j \in S :
                  SurvivorConfidence(j) = SurvivorConfidence(k)
                      => Rank(predicted[k].model) <= Rank(predicted[j].model)
            /\ response.body.text =
                  IF SurvivorConfidence(k) >= KERAS_CONFIDENCE_THRESHOLD
                  THEN SurvivorLabel(k)
                  ELSE LowConfidenceText(SurvivorLabel(k))

\* C5 witness: asl and isl tie at the maximum, above digit, and asl wins.
C5_Witness ==
    /\ Classified
    /\ Len(results) = 3
    /\ results[1].confidence < results[2].confidence
    /\ results[2].confidence = results[3].confidence
    /\ response.body.model = "asl"

\* RFC 4648 base64: a multiple of four characters of the alphabet, the last
\* one or two possibly "=".
IsValidBase64(s) ==
    /\ Len(s) % 4 = 0
    /\ \E k \in 0..2 :
          /\ k <= Len(s)
          /\ \A i \in 1..(Len(s) - k) : s[i] \in B64Alphabet
          /\ \A i \in (Len(s) - k + 1)..Len(s) : s[i] = "="

Malformed(body) ==
    /\ "image" \in DOMAIN body
    /\ ~HasMarker(body.image)
    /\ ~IsValidBase64(body.image)

\* C6 as stated: an image string that is not valid base64 ends with status
\* 400 and a structured error and no classifier is run.
C6_MalformedIs400 ==
    (pc # "idle" /\ Malformed(data)) =>
        /\ it = 0
        /\ pc = "done"
        /\ response.status = 400
        /\ DOMAIN response.body = {"error"}

\* C7: the data-URL form and the bare form of the same content decode to
\* the same image bytes, the content itself, and reach the classifiers.
C7_PrefixRoundTrip ==
    \A c \in Contents :
        (/\ pc # "idle"
         /\ "image" \in DOMAIN data
         /\ data.image \in {b64encode(c), DataUrlPrefix \o b64encode(c)})
            => /\ it > 0
               /\ image_bytes = c

\* C7 witness: a data-URL payload of a three-byte image was classified.
C7_Witness ==
    /\ Classified
    /\ data.image = DataUrlPrefix \o <<"i", "V", "B", "O">>
    /\ image_bytes = <<137, 80, 78>>
    /\ response.status = 200

\* C8: start-up attempts every configured SymbolSet once, in order; a
\* missing or unloadable artifact empties only its own slot; start-up always
\* completes with one slot, loaded or unavailable, per SymbolSet.
C8_StartupLoadsEach ==
    /\ main_pc = "loading" =>
          /\ Len(models) = load_i - 1
          /\ ENABLED (LoadModel \/ StartServing)
    /\ main_pc = "serving" => Len(models) = Len(MODEL_PATHS)
    /\ Len(startup_log) = Len(models)
    /\ \A i \in 1..Len(models) :
          /\ models[i].name = MODEL_PATHS[i]
          /\ startup_log[i].model = MODEL_PATHS[i]
          /\ models[i].model =
                IF artifact[MODEL_PATHS[i]] = "ok"
                THEN load_model(MODEL_PATHS[i]) ELSE None

\* C8 witness: the first artifact is corrupt, the second missing, the third
\* is loaded and the process serves.
C8_Witness ==
    /\ main_pc = "serving"
    /\ artifact["digit"] = "corrupt"
    /\ artifact["asl"] = "missing"
    /\ Len(models) = 3
    /\ models[1].model = None
    /\ models[2].model = None
    /\ models[3].model = load_model("isl")

\* ------------------------------------------------------------------------
\* /api/text-to-speech: lines 235-286
\* ------------------------------------------------------------------------

Texts == {<<"h", "i">>, <<"o", "k">>}

Languages == {<<"e", "n", "-", "U", "S">>, <<"h", "i">>, <<"z", "z">>}

\* Request bodies: text and language, or a body without language.
TtsBodies ==
    {[text |-> t, language |-> l] : t \in Texts, l \in Languages}
    \cup {[text |-> <<"h", "i">>]}

\* Lines 260-261: language.split('-')[0] when '-' occurs in it.
BaseLanguage(language) ==
    LET hits == {i \in 1..Len(language) : language[i] = "-"}
    IN IF hits = {} THEN language
       ELSE SubSeq(language, 1, (CHOOSE i \in hits : \A j \in hits : i <= j) - 1)

\* The languages gTTS accepts; its constructor raises ValueError otherwise.
SupportedLanguages == {<<"e", "n">>, <<"h", "i">>}

\* The MP3 bytes the synthesizer produces for a text in a language.
Audio(text, lang) == [mp3_of |-> text, lang |-> lang]

\* The empty file open(..., "wb") leaves before anything is written.
EmptyFile == [mp3_of |-> << >>, lang |-> << >>]

\* f"data:audio/mpeg;base64,{encoded_audio}" (b64encode is one-to-one).
AudioDataUrl(content) == [prefix |-> "data:audio/mpeg;base64,", base64_of |-> content]

TtsIdle ==
    [pc |-> "idle", text |-> << >>, lang |-> << >>, fd |-> 0,
     encoded_audio |-> None, error |-> "", response |-> None]

InitTTS ==
    /\ artifact = [n \in ModelNames |-> "ok"]
    /\ main_pc = "serving"
    /\ load_i = Len(MODEL_PATHS) + 1
    /\ models = [i \in 1..Len(MODEL_PATHS) |->
                    [name |-> MODEL_PATHS[i], model |-> load_model(MODEL_PATHS[i])]]
    /\ startup_log = [i \in 1..Len(MODEL_PATHS) |->
                         LogRec("info", "loaded", MODEL_PATHS[i])]
    /\ pc = "idle"
    /\ data = None
    /\ image_bytes = << >>
    /\ it = 0
    /\ results = << >>
    /\ predicted = << >>
    /\ log = << >>
    /\ response = None
    /\ fs = None
    /\ next_inode = 1
    /\ tts = [r \in 1..NumTTS |-> TtsIdle]

TtsInternalError ==
    Respond(500, [error |-> "Internal server error processing text-to-speech"])

\* The except clause of lines 282-286.
TtsFail(r, exc) ==
    tts' = [tts EXCEPT ![r].pc = "done", ![r].error = exc,
                       ![r].response = TtsInternalError]

\* Lines 252-267: read the body, reduce the language, construct gTTS.
TtsReceive(r) ==
    /\ tts[r].pc = "idle"
    /\ \E body \in TtsBodies :
         IF "text" \notin DOMAIN body \/ "language" \notin DOMAIN body
         THEN tts' = [tts EXCEPT ![r].pc = "done",
                        ![r].response =
                            Respond(400, [error |-> "Text and language are required"])]
         ELSE LET language == BaseLanguage(body.language) IN
              IF language \notin SupportedLanguages
              THEN tts' = [tts EXCEPT ![r].pc = "done", ![r].text = body.text,
                              ![r].lang = language, ![r].error = "ValueError",
                              ![r].response = TtsInternalError]
              ELSE tts' = [tts EXCEPT ![r].pc = "save", ![r].text = body.text,
                              ![r].lang = language]
    /\ UNCHANGED <<fs, next_inode, startup_vars, interp_vars>>

\* temp_filename of line 264 for request r: the same name for every request.
temp_filename(r) == "temp_audio.mp3"

\* Line 268, tts.save opening the file: open(temp_filename, "wb") creates
\* the file or truncates the existing one.
TtsSaveOpen(r) ==
    /\ tts[r].pc = "save"
    /\ IF fs = None
       THEN /\ fs' = [name |-> temp_filename(r), inode |-> next_inode,
                      content |-> EmptyFile]
            /\ next_inode' = next_inode + 1
       ELSE /\ fs' = [fs EXCEPT !.content = EmptyFile]
            /\ UNCHANGED next_inode
    /\ tts' = [tts EXCEPT ![r].pc = "write", ![r].fd = fs'.inode]
    /\ UNCHANGED <<startup_vars, interp_vars>>

\* Line 268, tts.save writing: the synthesizer is asked for the audio, which
\* is written through the open descriptor, or the request to it fails.
TtsSaveWrite(r) ==
    /\ tts[r].pc = "write"
    /\ \E synthesized \in BOOLEAN :
         IF synthesized
         THEN /\ tts' = [tts EXCEPT ![r].pc = "read"]
              /\ IF fs # None /\ fs.inode = tts[r].fd
                 THEN fs' = [fs EXCEPT !.content = Audio(tts[r].text, tts[r].lang)]
                 ELSE UNCHANGED fs
         ELSE /\ TtsFail(r, "gTTSError")
              /\ UNCHANGED fs
    /\ UNCHANGED <<next_inode, startup_vars, interp_vars>>

\* Lines 271-272: open the file by name and read it.
TtsRead(r) ==
    /\ tts[r].pc = "read"
    /\ IF fs = None
       THEN TtsFail(r, "FileNotFoundError")
       ELSE tts' = [tts EXCEPT ![r].pc = "exists",
                       ![r].encoded_audio = AudioDataUrl(fs.content)]
    /\ UNCHANGED <<fs, next_inode, startup_vars, interp_vars>>

\* Line 275: os.path.exists(temp_filename).
TtsExists(r) ==
    /\ tts[r].pc = "exists"
    /\ tts' = [tts EXCEPT ![r].pc = IF fs # None THEN "remove" ELSE "respond"]
    /\ UNCHANGED <<fs, next_inode, startup_vars, interp_vars>>

\* Line 276: os.remove(temp_filename).
TtsRemove(r) ==
    /\ tts[r].pc = "remove"
    /\ IF fs = None
       THEN /\ TtsFail(r, "FileNotFoundError")
            /\ UNCHANGED fs
       ELSE /\ fs' = None
            /\ tts' = [tts EXCEPT ![r].pc = "respond"]
    /\ UNCHANGED <<next_inode, startup_vars, interp_vars>>

\* Lines 278-280.
TtsRespond(r) ==
    /\ tts[r].pc = "respond"
    /\ tts' = [tts EXCEPT ![r].pc = "done",
                  ![r].response = Respond(200, [audio |-> tts[r].encoded_audio])]
    /\ UNCHANGED <<fs, next_inode, startup_vars, interp_vars>>

NextTTS ==
    \E r \in 1..NumTTS :
        \/ TtsReceive(r)
        \/ TtsSaveOpen(r)
        \/ TtsSaveWrite(r)
        \/ TtsRead(r)
        \/ TtsExists(r)
        \/ TtsRemove(r)
        \/ TtsRespond(r)

SpecTTS == InitTTS /\ [][NextTTS]_vars

\* ------------------------------------------------------------------------
\* Properties of /api/text-to-speech
\* ------------------------------------------------------------------------

\* C9: under any interleaving of concurrent requests each request reads
\* back exactly the audio synthesized for its own text, never another
\* request's audio and never a file another request has deleted.
C9_OwnAudioOnly ==
    \A r \in 1..NumTTS :
        /\ tts[r].error # "FileNotFoundError"
        /\ tts[r].encoded_audio # None =>
              tts[r].encoded_audio = AudioDataUrl(Audio(tts[r].text, tts[r].lang))

\* C10: once a request has finished, with audio or with a failure, the
\* temporary file it opened no longer exists.
C10_TempFileDeleted ==
    \A r \in 1..NumTTS :
        (tts[r].pc = "done" /\ tts[r].fd # 0) => ~(fs # None /\ fs.inode = tts[r].fd)

====
